---- MODULE Spec2Model ----
(***************************************************************************)
(* Model of the contact-form worker (src/src/index.ts, the handler at      *)
(* lines 109-208 and jsonResponse at 211-216).                             *)
(*                                                                         *)
(* One behaviour is the handling of one request.  The handler is cut at    *)
(* its await points, so that each external call (request.json, the         *)
(* siteverify fetch, its json(), WorkerMailer.connect, mailer.send,        *)
(* mailer.close) is one action whose outcome the environment chooses.      *)
(*                                                                         *)
(* JavaScript values are tagged records; a string is the sequence of its   *)
(* UTF-16 code units (what String.length counts), each written as a        *)
(* one-character TLA+ string.  A response body of kind "json" holds the    *)
(* value handed to JSON.stringify.                                         *)
(***************************************************************************)
EXTENDS Integers, Sequences, FiniteSets, TLC

VARIABLES request, pc, data, outcome, response, calls, mailerOpen, sent,
          closed, thrown

vars == <<request, pc, data, outcome, response, calls, mailerOpen, sent,
          closed, thrown>>

(***************************************************************************)
(* Bounds of the model and constants of the program.                       *)
(***************************************************************************)
MaxEmailLen == 5

MaxNameLen == 100

MaxMessageLen == 1000

(***************************************************************************)
(* JavaScript values.                                                      *)
(***************************************************************************)
Undefined == [type |-> "undefined"]

JNull == [type |-> "null"]

Str(cs) == [type |-> "string", chars |-> cs]

Num(n) == [type |-> "number", num |-> n]

Bool(b) == [type |-> "boolean", val |-> b]

Obj(f) == [type |-> "object", fields |-> f]

Rep(c, n) == [i \in 1..n |-> c]

\* ToBoolean, as applied by the ! operator.
Truthy(v) ==
    CASE v.type = "string" -> Len(v.chars) > 0
      [] v.type = "number" -> v.num # 0
      [] v.type = "boolean" -> v.val
      [] v.type = "object" -> TRUE
      [] OTHER -> FALSE

\* The typeof operator (typeof null is "object").
TypeOf(v) == IF v.type = "null" THEN "object" ELSE v.type

\* Reading a property of null or undefined throws a TypeError.
PropThrows(v) == v.type \in {"null", "undefined"}

\* v.k for a value whose properties can be read: own fields of an object
\* parsed from JSON, undefined otherwise.
Get(v, k) ==
    IF v.type = "object" /\ k \in DOMAIN v.fields THEN v.fields[k] ELSE Undefined

(***************************************************************************)
(* emailRegex = /^[^\s@]+@[^\s@]+\.[^\s@]+$/, run as the automaton of the  *)
(* pattern: state 0 before the first character, 1 inside the local part,   *)
(* 2 after the @, 3 inside the second class, 4 after the literal dot,      *)
(* 5 inside the last class (accepting at the end of the input).            *)
(***************************************************************************)
Whitespace == {" ", "\t", "\n"}

ClassChar(c) == c \notin Whitespace /\ c # "@"

RegexStep(q, c) ==
    CASE q = 0 -> IF ClassChar(c) THEN {1} ELSE {}
      [] q = 1 -> (IF ClassChar(c) THEN {1} ELSE {}) \cup (IF c = "@" THEN {2} ELSE {})
      [] q = 2 -> IF ClassChar(c) THEN {3} ELSE {}
      [] q = 3 -> (IF ClassChar(c) THEN {3} ELSE {}) \cup (IF c = "." THEN {4} ELSE {})
      [] q = 4 -> IF ClassChar(c) THEN {5} ELSE {}
      [] q = 5 -> IF ClassChar(c) THEN {5} ELSE {}

RECURSIVE RegexRun(_, _, _)
RegexRun(s, i, qs) ==
    IF i > Len(s) THEN qs
    ELSE RegexRun(s, i + 1, UNION {RegexStep(q, s[i]) : q \in qs})

\* The pattern with its last + written as *.
emailRegexTestStar(s) == RegexRun(s, 1, {0}) \cap {4, 5} # {}

emailRegexTest(s) == 5 \in RegexRun(s, 1, {0})

(***************************************************************************)
(* Responses.                                                              *)
(***************************************************************************)
NoResponse == [status |-> 0]

\* jsonResponse(body, status)
jsonResponse(body, status) ==
    [status |-> status,
     body |-> [kind |-> "json", value |-> body],
     headers |-> ("Content-Type" :> "application/json")]

PreflightResponseNoAllowHeaders ==
    [status |-> 200,
     body |-> [kind |-> "none"],
     headers |-> ("Access-Control-Allow-Origin" :> "https://beroea.tech")
              @@ ("Access-Control-Allow-Methods" :> "POST, OPTIONS")]

\* new Response(null, {headers: ...}) of the OPTIONS branch; the status of a
\* Response built without one is 200.
PreflightResponse ==
    [status |-> 200,
     body |-> [kind |-> "none"],
     headers |-> ("Access-Control-Allow-Origin" :> "https://beroea.tech")
              @@ ("Access-Control-Allow-Methods" :> "POST, OPTIONS")
              @@ ("Access-Control-Allow-Headers" :> "Content-Type")]

\* new Response('Method Not Allowed', { status: 405 })
MethodNotAllowedResponse ==
    [status |-> 405,
     body |-> [kind |-> "text", value |-> "Method Not Allowed"],
     headers |-> <<>>]

\* The response of the success path.
SuccessResponse(d) ==
    [status |-> 200,
     body |-> [kind |-> "json", value |-> [success |-> TRUE, received |-> d]],
     headers |-> ("Content-Type" :> "application/json")
              @@ ("Access-Control-Allow-Origin" :> "*")]

CatchResponse500 ==
    [status |-> 500,
     body |-> [kind |-> "json", value |-> [error |-> "Bad Request"]],
     headers |-> ("Content-Type" :> "application/json")]

CatchResponseWithCause ==
    [status |-> 400,
     body |-> [kind |-> "json", value |-> [error |-> "Internal error"]],
     headers |-> ("Content-Type" :> "application/json")]

\* The response of the catch block.
CatchResponse ==
    [status |-> 400,
     body |-> [kind |-> "json", value |-> [error |-> "Bad Request"]],
     headers |-> ("Content-Type" :> "application/json")]

(***************************************************************************)
(* The requests handled.  A field choice of Undefined means that the key   *)
(* is absent from the posted object.                                       *)
(***************************************************************************)
Methods == {"OPTIONS", "POST", "GET", "PUT", "DELETE"}

EmailAlphabet == {"a", "@", ".", " ", "\t"}

EmailStrings == UNION {[1..n -> EmailAlphabet] : n \in 0..MaxEmailLen}

ValidName == Str(<<"A", "n", "a">>)

ValidEmail == Str(<<"a", "@", "b", ".", "c">>)

ValidMessage == Str(<<"H", "e", "l", "l", "o">>)

ValidToken == Str(<<"t", "o", "k">>)

NameChoices ==
    {Undefined, Str(<<>>), Num(0), Num(5), ValidName,
     Str(Rep("n", MaxNameLen)), Str(Rep("n", MaxNameLen + 1))}

EmailChoices ==
    {Undefined, Str(<<>>), Num(7), ValidEmail, Str(<<"a", "@", "b">>)}

MessageChoices ==
    {Undefined, Str(<<>>), JNull, Num(5), ValidMessage,
     Str(Rep("m", MaxMessageLen)), Str(Rep("m", MaxMessageLen + 1))}

TokenChoices == {Undefined, Str(<<>>), Num(5), ValidToken}

MkObj(n, e, m, t, x) ==
    LET c == ("name" :> n) @@ ("email" :> e) @@ ("message" :> m)
             @@ ("token" :> t) @@ ("extra" :> x)
    IN  Obj([k \in {kk \in DOMAIN c : c[kk] # Undefined} |-> c[k]])

ObjectValues ==
    {MkObj(n, e, m, t, Undefined) :
        n \in NameChoices, e \in EmailChoices, m \in MessageChoices,
        t \in TokenChoices}
    \cup {MkObj(ValidName, Str(e), ValidMessage, ValidToken, Undefined) :
            e \in EmailStrings}
    \cup {MkObj(n, ValidEmail, ValidMessage, ValidToken, Bool(TRUE)) :
            n \in NameChoices}

\* Values JSON.parse can return that are no object with fields.
OtherValues == {JNull, Num(5), Str(<<"x">>), [type |-> "array"]}

Bodies ==
    {[kind |-> "unparsable"]}
    \cup {[kind |-> "json", value |-> v] : v \in ObjectValues \cup OtherValues}

FewBodies ==
    {[kind |-> "unparsable"],
     [kind |-> "json", value |-> JNull],
     [kind |-> "json",
      value |-> MkObj(ValidName, ValidEmail, ValidMessage, ValidToken, Undefined)],
     [kind |-> "json",
      value |-> MkObj(Undefined, ValidEmail, ValidMessage, ValidToken, Undefined)]}

Requests ==
    {[method |-> "POST", body |-> b] : b \in Bodies}
    \cup {[method |-> m, body |-> b] : m \in Methods \ {"POST"}, b \in FewBodies}

\* What the json() of the siteverify response can resolve to.
OutcomeValues ==
    {JNull, Num(1), Obj(<<>>),
     Obj("success" :> Bool(TRUE)), Obj("success" :> Bool(FALSE)),
     Obj("success" :> Str(<<"y">>)), Obj("success" :> JNull)}

CallResults == {"ok", "throws"}

(***************************************************************************)
(* The handler.                                                            *)
(***************************************************************************)
Init ==
    /\ request \in Requests
    /\ pc = "start"
    /\ data = Undefined
    /\ outcome = Undefined
    /\ response = NoResponse
    /\ calls = <<>>
    /\ mailerOpen = FALSE
    /\ sent = FALSE
    /\ closed = FALSE
    /\ thrown = "none"

\* return r
Return(r) ==
    /\ response' = r
    /\ pc' = "done"

\* An exception raised at `step` inside the try block: the catch block answers.
Catch(step) ==
    /\ thrown' = step
    /\ Return(CatchResponse)

\* if (request.method === 'OPTIONS')
Preflight ==
    /\ pc = "start"
    /\ request.method = "OPTIONS"
    /\ Return(PreflightResponse)
    /\ UNCHANGED <<request, data, outcome, calls, mailerOpen, sent, closed, thrown>>

\* The fall-through after both method tests.
MethodNotAllowed ==
    /\ pc = "start"
    /\ request.method # "OPTIONS"
    /\ request.method # "POST"
    /\ Return(MethodNotAllowedResponse)
    /\ UNCHANGED <<request, data, outcome, calls, mailerOpen, sent, closed, thrown>>

\* const data = await request.json()
ParseBody ==
    /\ pc = "start"
    /\ request.method = "POST"
    /\ IF request.body.kind = "unparsable"
       THEN /\ Catch("json")
            /\ UNCHANGED data
       ELSE /\ data' = request.body.value
            /\ pc' = "validate"
            /\ UNCHANGED <<response, thrown>>
    /\ UNCHANGED <<request, outcome, calls, mailerOpen, sent, closed>>

\* if (!data.name || !data.email || !data.message)
MissingRequiredNoMessage(d) ==
    \/ ~Truthy(Get(d, "name"))
    \/ ~Truthy(Get(d, "email"))

MissingRequired(d) ==
    \/ ~Truthy(Get(d, "name"))
    \/ ~Truthy(Get(d, "email"))
    \/ ~Truthy(Get(d, "message"))

\* The four typeof tests.
InvalidTypes(d) ==
    \/ TypeOf(Get(d, "name")) # "string"
    \/ TypeOf(Get(d, "email")) # "string"
    \/ TypeOf(Get(d, "message")) # "string"
    \/ TypeOf(Get(d, "token")) # "string"

\* if (data.name.length > 100 || data.message.length > 1000)
TooLongOffByOne(d) ==
    \/ Len(Get(d, "name").chars) >= MaxNameLen
    \/ Len(Get(d, "message").chars) >= MaxMessageLen

TooLong(d) ==
    \/ Len(Get(d, "name").chars) > MaxNameLen
    \/ Len(Get(d, "message").chars) > MaxMessageLen

\* The checks on data, in the order of the code; "pass" when none answers.
Validation(d) ==
    IF PropThrows(d) THEN [kind |-> "throw"]
    ELSE IF MissingRequired(d)
    THEN [kind |-> "return", response |-> jsonResponse([error |-> "Missing required fields"], 400)]
    ELSE IF InvalidTypes(d)
    THEN [kind |-> "return", response |-> jsonResponse([error |-> "Invalid field types"], 400)]
    ELSE IF TooLong(d)
    THEN [kind |-> "return", response |-> jsonResponse([error |-> "Input too long"], 400)]
    ELSE IF ~emailRegexTest(Get(d, "email").chars)
    THEN [kind |-> "return", response |-> jsonResponse([error |-> "Invalid email format"], 400)]
    ELSE [kind |-> "pass"]

\* From the presence check to the start of the siteverify fetch.
Validate ==
    /\ pc = "validate"
    /\ LET v == Validation(data)
       IN  CASE v.kind = "throw" ->
                  /\ Catch("validate")
                  /\ UNCHANGED calls
             [] v.kind = "return" ->
                  /\ Return(v.response)
                  /\ UNCHANGED <<calls, thrown>>
             [] v.kind = "pass" ->
                  /\ calls' = Append(calls, "siteverify")
                  /\ pc' = "fetch"
                  /\ UNCHANGED <<response, thrown>>
    /\ UNCHANGED <<request, data, outcome, mailerOpen, sent, closed>>

\* const turnstileRes = await fetch(siteverify, ...)
FetchSiteverify ==
    /\ pc = "fetch"
    /\ \E r \in CallResults :
         IF r = "throws"
         THEN Catch("fetch")
         ELSE /\ pc' = "outcome"
              /\ UNCHANGED <<response, thrown>>
    /\ UNCHANGED <<request, data, outcome, calls, mailerOpen, sent, closed>>

VerificationFailedStrict(o) == Get(o, "success") = Bool(FALSE)

\* if (!outcome.success)
VerificationFailed(o) == ~Truthy(Get(o, "success"))

\* const outcome = await turnstileRes.json(); the success test; on success
\* the start of WorkerMailer.connect.
ParseOutcome ==
    /\ pc = "outcome"
    /\ \/ /\ Catch("outcome.json")
          /\ UNCHANGED <<outcome, calls>>
       \/ \E o \in OutcomeValues :
            /\ outcome' = o
            /\ IF PropThrows(o)
               THEN /\ Catch("outcome.success")
                    /\ UNCHANGED calls
               ELSE IF VerificationFailed(o)
               THEN /\ Return(jsonResponse([error |-> "Turnstile verification failed"], 403))
                    /\ UNCHANGED <<calls, thrown>>
               ELSE /\ calls' = Append(calls, "connect")
                    /\ pc' = "connect"
                    /\ UNCHANGED <<response, thrown>>
    /\ UNCHANGED <<request, data, mailerOpen, sent, closed>>

\* const mailer = await WorkerMailer.connect(...); on success the start of
\* mailer.send.
Connect ==
    /\ pc = "connect"
    /\ \E r \in CallResults :
         IF r = "throws"
         THEN /\ Catch("connect")
              /\ UNCHANGED <<mailerOpen, calls>>
         ELSE /\ mailerOpen' = TRUE
              /\ calls' = Append(calls, "send")
              /\ pc' = "send"
              /\ UNCHANGED <<response, thrown>>
    /\ UNCHANGED <<request, data, outcome, sent, closed>>

\* await mailer.send(...)
Send ==
    /\ pc = "send"
    /\ \E r \in CallResults :
         IF r = "throws"
         THEN /\ Catch("send")
              /\ UNCHANGED sent
         ELSE /\ sent' = TRUE
              /\ pc' = "close"
              /\ UNCHANGED <<response, thrown>>
    /\ UNCHANGED <<request, data, outcome, calls, mailerOpen, closed>>

\* What follows a mailer.close() that returned.
AfterClose(d) == Return(SuccessResponse(d))

\* mailer.close(); return new Response(JSON.stringify({success: true, received: data}), ...)
\* The call is not awaited: its outcome here is that of the call itself, which
\* returns or throws into the try block.
Close ==
    /\ pc = "close"
    /\ calls' = Append(calls, "close")
    /\ \E r \in CallResults :
         IF r = "throws"
         THEN /\ Catch("close")
              /\ UNCHANGED <<mailerOpen, closed>>
         ELSE /\ mailerOpen' = FALSE
              /\ closed' = TRUE
              /\ AfterClose(data)
              /\ UNCHANGED thrown
    /\ UNCHANGED <<request, data, outcome, sent>>

Next ==
    \/ Preflight
    \/ MethodNotAllowed
    \/ ParseBody
    \/ Validate
    \/ FetchSiteverify
    \/ ParseOutcome
    \/ Connect
    \/ Send
    \/ Close

Spec == Init /\ [][Next]_vars

(***************************************************************************)
(* Vocabulary of the properties.                                           *)
(***************************************************************************)
Done == pc = "done"

IsPost == request.method = "POST"

\* The body parsed: the request carries JSON text.
Parsed == request.body.kind = "json"

Posted == request.body.value

PostedField(k) ==
    IF Posted.type = "object" /\ k \in DOMAIN Posted.fields
    THEN Posted.fields[k]
    ELSE Undefined

NonEmptyString(v) == v.type = "string" /\ v.chars # <<>>

MissingOrEmpty(v) == v = Undefined \/ v = Str(<<>>)

ErrorIs(msg) ==
    /\ response.body.kind = "json"
    /\ response.body.value = [error |-> msg]

Contacted(service) == \E i \in DOMAIN calls : calls[i] = service

ContactedRelay == Contacted("connect") \/ Contacted("send") \/ Contacted("close")

ContactedVerification == Contacted("siteverify")

\* local@domain.tld: an @ at i and a later dot at j, each of the three parts
\* non-empty, and no whitespace and no other @ anywhere.
EmailShape(s) ==
    \E i, j \in 1..Len(s) :
        /\ s[i] = "@"
        /\ s[j] = "."
        /\ 1 < i
        /\ i + 1 < j
        /\ j < Len(s)
        /\ \A k \in (1..Len(s)) \ {i} : s[k] \notin {" ", "\t", "\n", "@"}

\* Name, email and message non-empty strings and the token a string.
WellTyped ==
    /\ NonEmptyString(PostedField("name"))
    /\ NonEmptyString(PostedField("email"))
    /\ NonEmptyString(PostedField("message"))
    /\ PostedField("token").type = "string"

WithinLengths ==
    /\ Len(PostedField("name").chars) <= 100
    /\ Len(PostedField("message").chars) <= 1000

\* The verification service answered success = true.
VerifiedTrue ==
    /\ outcome.type = "object"
    /\ "success" \in DOMAIN outcome.fields
    /\ outcome.fields["success"] = Bool(TRUE)

(***************************************************************************)
(* C1: a valid submission (non-empty string name, email and message, a     *)
(* string token, name of at most 100 and message of at most 1000           *)
(* characters, email of the accepted shape) whose verification answered    *)
(* success = true and whose relay connect and send both succeeded is       *)
(* answered with HTTP 200 and {success: true, received: <the posted        *)
(* object>}.                                                               *)
(***************************************************************************)
C1_ValidSubmissionSucceeds ==
    (/\ Done
     /\ IsPost
     /\ Parsed
     /\ WellTyped
     /\ WithinLengths
     /\ EmailShape(PostedField("email").chars)
     /\ VerifiedTrue
     /\ sent)
    => /\ response.status = 200
       /\ response.body.kind = "json"
       /\ response.body.value = [success |-> TRUE, received |-> Posted]

(***************************************************************************)
(* C2: the mail relay is contacted only after the verification call was    *)
(* made, completed and returned a truthy success flag; when verification   *)
(* returns {success: false} the response is HTTP 403 "Turnstile            *)
(* verification failed" and the relay is never contacted.                  *)
(***************************************************************************)
C2_MailOnlyAfterVerification ==
    /\ ContactedRelay =>
         /\ calls[1] = "siteverify"
         /\ outcome # Undefined
         /\ outcome.type = "object"
         /\ "success" \in DOMAIN outcome.fields
         /\ outcome.fields["success"] \in {Bool(TRUE), Str(<<"y">>)}
    /\ (Done /\ outcome = Obj("success" :> Bool(FALSE))) =>
         /\ response.status = 403
         /\ ErrorIs("Turnstile verification failed")
         /\ ~ContactedRelay
         /\ ~sent

C2_Witness ==
    /\ Done
    /\ outcome = Obj("success" :> Bool(FALSE))
    /\ response.status = 403
    /\ calls = <<"siteverify">>

(***************************************************************************)
(* C3 as stated: a POST whose parsed body has any of name, email, message  *)
(* missing or empty is answered with HTTP 400 "Missing required fields"    *)
(* and the mail relay is never contacted.                                  *)
(***************************************************************************)
C3_MissingFieldsRejected ==
    (/\ Done
     /\ IsPost
     /\ Parsed
     /\ \/ MissingOrEmpty(PostedField("name"))
        \/ MissingOrEmpty(PostedField("email"))
        \/ MissingOrEmpty(PostedField("message")))
    => /\ response.status = 400
       /\ ErrorIs("Missing required fields")
       /\ ~ContactedRelay

(***************************************************************************)
(* C3 amended: the same for every parsed body other than the JSON value    *)
(* null, for which reading data.name throws and the catch block answers    *)
(* "Bad Request".                                                          *)
(***************************************************************************)
C3_MissingFieldsRejectedNonNull ==
    /\ (/\ Done
        /\ IsPost
        /\ Parsed
        /\ Posted # JNull
        /\ \/ MissingOrEmpty(PostedField("name"))
           \/ MissingOrEmpty(PostedField("email"))
           \/ MissingOrEmpty(PostedField("message")))
       => /\ response.status = 400
          /\ ErrorIs("Missing required fields")
          /\ ~ContactedRelay
    /\ (Done /\ IsPost /\ Parsed /\ Posted = JNull)
       => /\ response.status = 400
          /\ ErrorIs("Bad Request")
          /\ ~ContactedRelay

C3_Witness ==
    /\ Done
    /\ IsPost
    /\ Parsed
    /\ Posted.type = "object"
    /\ PostedField("name") = ValidName
    /\ PostedField("email") = ValidEmail
    /\ PostedField("message") = Undefined
    /\ ErrorIs("Missing required fields")

(***************************************************************************)
(* C4: a POST that is otherwise valid but whose name is longer than 100 or *)
(* whose message is longer than 1000 characters is answered with HTTP 400  *)
(* "Input too long" and contacts neither the verification service nor the  *)
(* relay; a name of exactly 100 and a message of exactly 1000 characters   *)
(* are not rejected as too long.                                           *)
(***************************************************************************)
C4_LengthBounds ==
    (Done /\ IsPost /\ Parsed /\ WellTyped) =>
        IF \/ Len(PostedField("name").chars) > 100
           \/ Len(PostedField("message").chars) > 1000
        THEN /\ response.status = 400
             /\ ErrorIs("Input too long")
             /\ calls = <<>>
        ELSE ~ErrorIs("Input too long")

C4_Witness ==
    /\ Done
    /\ IsPost
    /\ Parsed
    /\ WellTyped
    /\ Len(PostedField("name").chars) = 100
    /\ Len(PostedField("message").chars) = 1001
    /\ ErrorIs("Input too long")

(***************************************************************************)
(* C5: a POST that passes the presence, type and length checks is answered *)
(* with HTTP 400 "Invalid email format" exactly when its email is not of   *)
(* the shape local@domain.tld; an email of that shape passes the check and *)
(* the verification service is called.                                     *)
(***************************************************************************)
C5_EmailShapeChecked ==
    (Done /\ IsPost /\ Parsed /\ WellTyped /\ WithinLengths) =>
        IF EmailShape(PostedField("email").chars)
        THEN ~ErrorIs("Invalid email format") /\ ContactedVerification
        ELSE /\ response.status = 400
             /\ ErrorIs("Invalid email format")
             /\ calls = <<>>

C5_Witness ==
    /\ Done
    /\ IsPost
    /\ Parsed
    /\ WellTyped
    /\ PostedField("email") = Str(<<"a", "@", "b">>)
    /\ ErrorIs("Invalid email format")

(***************************************************************************)
(* C6: a request whose method is not POST contacts no external service and *)
(* its response depends on the method alone: OPTIONS gets a response       *)
(* without body carrying the three Access-Control-Allow-* headers, any     *)
(* other method gets HTTP 405 with the text "Method Not Allowed".          *)
(***************************************************************************)
C6_NonPostByMethodAlone ==
    ~IsPost =>
        /\ calls = <<>>
        /\ thrown = "none"
        /\ Done =>
             IF request.method = "OPTIONS"
             THEN /\ response.body = [kind |-> "none"]
                  /\ {"Access-Control-Allow-Origin",
                      "Access-Control-Allow-Methods",
                      "Access-Control-Allow-Headers"} \subseteq DOMAIN response.headers
             ELSE /\ response.status = 405
                  /\ response.body = [kind |-> "text", value |-> "Method Not Allowed"]

C6_Witness ==
    /\ Done
    /\ request.method = "OPTIONS"
    /\ request.body.kind = "json"
    /\ request.body.value = JNull
    /\ response.body.kind = "none"

(***************************************************************************)
(* C7: no partial success: a POST ends either with the email sent and HTTP *)
(* 200, or with no email sent and an error response.                       *)
(***************************************************************************)
C7_NoPartialSuccess ==
    (Done /\ IsPost) =>
        \/ sent /\ response.status = 200
        \/ ~sent /\ response.status # 200

(***************************************************************************)
(* C8: whatever the request and whatever the verification service and the  *)
(* relay do, the status of the response is 200, 400, 403 or 405.           *)
(***************************************************************************)
C8_StatusCodes ==
    /\ Done => response.status \in {200, 400, 403, 405}
    /\ ~Done => response = NoResponse

C8_Witness ==
    /\ Done
    /\ thrown = "connect"
    /\ response.status = 400

C10_ConnectionClosed ==
    (Done /\ Contacted("send")) => closed /\ ~mailerOpen

====
